---- MODULE Spec2Model ----
(***************************************************************************)
(* d365-form-helpers: the PrimaryControl facade over a host form model.    *)
(* The host form (attributes, controls, tabs, sections, registered         *)
(* handlers) is the state; every public operation of PrimaryControl is an  *)
(* action that runs the whole call (getObject / setToObject / addHandler)  *)
(* and leaves its completion in `call`.                                    *)
(***************************************************************************)
EXTENDS Integers, Sequences, FiniteSets, TLC

VARIABLES attributes, value, requiredLevel, controls, visible, disabled, tabs, handlers, call

vars == <<attributes, value, requiredLevel, controls, visible, disabled, tabs, handlers, call>>

form == <<attributes, value, requiredLevel, controls, visible, disabled, tabs, handlers>>

(***************************************************************************)
(* Bounds                                                                  *)
(***************************************************************************)
MaxArrayLen == 2

MaxHandlers == 2

(***************************************************************************)
(* The host objects                                                        *)
(***************************************************************************)
AttributeNames == {"firstname", "lastname"}

ControlNames == {"mobilephone", "parentid", "contacts", "map", "kb"}

TabNames == {"Summary", "Details"}

SectionNames == {"AddressSection", "NameSection", "NotesSection"}

Handle(cls, ref) == [cls |-> cls, ref |-> ref]

NullH == Handle("Value", "null")

ControlType(name) ==
    CASE name = "mobilephone" -> "standard"
      [] name = "parentid"    -> "lookup"
      [] name = "contacts"    -> "subgrid"
      [] name = "map"         -> "iframe"
      [] name = "kb"          -> "kbsearch"
      [] OTHER                -> "standard"

\* the sections the host keeps in each tab, in host order
sections(tab) ==
    CASE tab = "Summary" -> <<"NameSection", "AddressSection">>
      [] tab = "Details" -> <<"AddressSection", "NotesSection">>
      [] OTHER           -> <<>>

\* the methods a handle exposes (what `typeof x.m === "function"` sees)
Methods(h) ==
    CASE h.cls = "Attribute"  -> {"getAttributeType", "getName", "getValue", "setValue", "setRequiredLevel", "addOnChange"}
      [] h.cls = "Tab"        -> {"addTabStateChange", "getDisplayState", "getName", "getParent",
                                    "removeTabStateChange", "setDisplayState", "setVisible", "getVisible",
                                    "getLabel", "setLabel", "setFocus"}
      [] h.cls = "TabControl" -> {"addTabStateChange", "getDisplayState", "getName", "getParent",
                                    "removeTabStateChange", "setDisplayState", "setVisible", "getVisible",
                                    "getLabel", "setLabel", "setFocus", "getSection"}
      [] h.cls = "Section"    -> {"getName", "setVisible", "getVisible", "getLabel", "setLabel"}
      [] h.cls = "Xrm.EventContext" -> {"getFormContext", "getContext", "getEventSource", "getDepth"}
      [] h.cls = "Xrm.FormContext"  -> {"getAttribute", "getControl"}
      [] h.cls = "Xrm.Ui"           -> {"addOnLoad", "addLoaded"}
      [] h.cls = "Xrm.Data"         -> {"addOnLoad"}
      [] h.cls = "Xrm.Entity"       -> {"addOnSave", "addOnPostSave"}
      [] h.cls = "Xrm.ProcessFlow"  -> {"addOnPreProcessStatusChange", "addOnProcessStatusChange",
                                        "addOnPreStageChange", "addOnStageChange", "addOnStageSelected"}
      [] h.cls = "Duck"             -> {h.ref}
      [] h.cls = "DuckControl"      -> {"getControlType", h.ref}
      [] h.cls = "Control"    ->
            {"getControlType", "getName", "getVisible", "setVisible"} \cup
            (CASE ControlType(h.ref) = "standard" -> {"setDisabled", "clearNotification", "addOnOutputChange"}
               [] ControlType(h.ref) = "lookup"   -> {"setDisabled", "clearNotification", "addOnOutputChange",
                                                      "addOnLookupTagClick", "addPreSearch"}
               [] ControlType(h.ref) = "subgrid"  -> {"getGrid", "addOnLoad"}
               [] ControlType(h.ref) = "iframe"   -> {"getContentWindow", "addOnReadyStateComplete"}
               [] ControlType(h.ref) = "kbsearch" -> {"addOnPostSearch", "addOnResultOpened", "addOnSelection"}
               [] OTHER -> {})
      [] OTHER -> {}

(***************************************************************************)
(* Specifiers: the caller's addressing argument, by runtime shape          *)
(***************************************************************************)
NoObj == Handle("None", "")

Sp(k, n, s, p, o, items) == [k |-> k, n |-> n, s |-> s, p |-> p, o |-> o, items |-> items]

Undefined == Sp("undefined", 0, "", {}, NoObj, <<>>)

Null == Sp("null", 0, "", {}, NoObj, <<>>)

Boolean == Sp("boolean", 0, "", {}, NoObj, <<>>)

Index(n) == Sp("number", n, "", {}, NoObj, <<>>)

Name(s) == Sp("string", 0, s, {}, NoObj, <<>>)

\* a matching delegate, identified by the set of item names it returns true for
Delegate(p) == Sp("function", 0, "", p, NoObj, <<>>)

Instance(h) == Sp("object", 0, "", {}, h, <<>>)

Array(items) == Sp("array", 0, "", {}, NoObj, items)

\* typeof x === "string" || typeof x === "number"
IsKey(x) == x.k \in {"string", "number"}

\* !x
Not(x) ==
    \/ x.k \in {"undefined", "null"}
    \/ x.k = "number" /\ x.n = 0
    \/ x.k = "string" /\ x.s = ""

Indexes == {Index(n) : n \in 0..2}

Keys ==
    Indexes \cup {Name(s) : s \in AttributeNames \cup ControlNames \cup TabNames \cup SectionNames \cup {"ghost", ""}}

Delegates == {Delegate(p) : p \in SUBSET (AttributeNames \cup ControlNames \cup TabNames \cup SectionNames)}

(***************************************************************************)
(* Completions: how a call ends and what it did                            *)
(***************************************************************************)
\* a returned JavaScript value: one handle, or an array of handles
One(h) == [arr |-> FALSE, v |-> <<h>>]

Many(hs) == [arr |-> TRUE, v |-> hs]

Void == One(Handle("Value", "undefined"))

Completion(error, ret, warns, applied) ==
    [threw |-> error # "", error |-> error, ret |-> ret, warns |-> warns, applied |-> applied]

Normal(ret) == Completion("", ret, <<>>, <<>>)

\* an uncaught TypeError raised by evaluating `what`
Thrown(what) == Completion(what, Void, <<>>, <<>>)

\* !!h
Truthy(h) == ~(h.cls = "Value" /\ h.ref \in {"null", "undefined", "0", "false", ""})


BoundedSeq(S, n) == UNION {[1..m -> S] : m \in 0..n}

(***************************************************************************)
(* The host collections (Xrm.Collection.ItemCollection.get and the         *)
(* formContext.getAttribute / getControl shortcuts)                        *)
(***************************************************************************)
\* collection.get(): no argument -> every item; number -> the item at that
\* position or null; string -> the item of that name or null; delegate ->
\* the items it accepts, in collection order
hostGet(coll, cls, input) ==
    CASE input.k = "number" ->
            IF input.n < Len(coll) THEN One(Handle(cls, coll[input.n + 1])) ELSE One(NullH)
      [] input.k = "string" ->
            IF \E i \in 1..Len(coll) : coll[i] = input.s THEN One(Handle(cls, input.s)) ELSE One(NullH)
      [] input.k = "function" ->
            LET hit == SelectSeq(coll, LAMBDA x : x \in input.p)
            IN  Many([i \in 1..Len(hit) |-> Handle(cls, hit[i])])
      [] OTHER ->
            Many([i \in 1..Len(coll) |-> Handle(cls, coll[i])])

formContext_getAttribute(input) == hostGet(attributes, "Attribute", input)

formContext_getControl(input) == hostGet(controls, "Control", input)

formContext_ui_tabs_get(input) == hostGet(tabs, "Tab", input)

\* attribute.getValue()
getValue(h) == Handle("Value", value[h.ref])

(***************************************************************************)
(* TabControl                                                              *)
(***************************************************************************)
\* new TabControl(control): a wrapper holds the raw host tab in either case
newTabControl_KeepsWrapper(control) ==
    IF control.cls = "TabControl" THEN Handle("TabControl of TabControl", control.ref)
    ELSE Handle("TabControl", control.ref)

newTabControl(control) ==
    IF control.cls = "TabControl" THEN Handle("TabControl", control.ref)
    ELSE Handle("TabControl", control.ref)

TabControl_getSection(tab, input) ==
    IF IsKey(input) THEN hostGet(sections(tab.ref), "Section", input)
    ELSE hostGet(sections(tab.ref), "Section", input)

(***************************************************************************)
(* PrimaryControl.getObject and the getters bound to it                    *)
(***************************************************************************)
\* getObject with the absent test written `!input`
getObject_FalsyGuard(input, resolver, resolverAll) ==
    IF Not(input) THEN Normal(One(NullH))
    ELSE IF input.k = "array" THEN
        LET n == Len(input.items)
            mapped == [i \in 1..n |-> resolver[input.items[i]]]
        IN  IF \E i \in 1..n : mapped[i].threw
            THEN mapped[CHOOSE i \in 1..n : mapped[i].threw /\ \A j \in 1..(i - 1) : ~mapped[j].threw]
            ELSE Normal(Many(SelectSeq([i \in 1..n |-> mapped[i].ret.v[1]], LAMBDA o : o # NullH)))
    ELSE IF IsKey(input) THEN
        LET control == resolver[input]
        IN  IF control.threw THEN control
            ELSE IF ~Truthy(control.ret.v[1]) THEN Normal(One(NullH))
            ELSE control
    ELSE resolverAll[input]

getObject_AbsentIsEmpty(input, resolver, resolverAll) ==
    IF input.k = "undefined" THEN Normal(Many(<<>>))
    ELSE IF input.k = "array" THEN
        LET n == Len(input.items)
            mapped == [i \in 1..n |-> resolver[input.items[i]]]
        IN  IF \E i \in 1..n : mapped[i].threw
            THEN mapped[CHOOSE i \in 1..n : mapped[i].threw /\ \A j \in 1..(i - 1) : ~mapped[j].threw]
            ELSE Normal(Many(SelectSeq([i \in 1..n |-> mapped[i].ret.v[1]], LAMBDA o : o # NullH)))
    ELSE IF IsKey(input) THEN
        LET control == resolver[input]
        IN  IF control.threw THEN control
            ELSE IF ~Truthy(control.ret.v[1]) THEN Normal(One(NullH))
            ELSE control
    ELSE resolverAll[input]

getObject(input, resolver, resolverAll) ==
    IF input.k = "undefined" THEN Normal(One(NullH))
    ELSE IF input.k = "array" THEN
        LET n == Len(input.items)
            mapped == [i \in 1..n |-> resolver[input.items[i]]]
        IN  IF \E i \in 1..n : mapped[i].threw
            THEN mapped[CHOOSE i \in 1..n : mapped[i].threw /\ \A j \in 1..(i - 1) : ~mapped[j].threw]
            ELSE Normal(Many(SelectSeq([i \in 1..n |-> mapped[i].ret.v[1]], LAMBDA o : o # NullH)))
    ELSE IF IsKey(input) THEN
        LET control == resolver[input]
        IN  IF control.threw THEN control
            ELSE IF ~Truthy(control.ret.v[1]) THEN Normal(One(NullH))
            ELSE control
    ELSE resolverAll[input]

getAttribute_Remembered(input) ==
    getObject(input,
        [x \in Keys |-> Normal(hostGet(<<"firstname", "lastname">>, "Attribute", x))],
        [f \in Delegates |-> Normal(formContext_getAttribute(f))])

getAttribute(input) ==
    getObject(input,
        [x \in Keys |-> Normal(formContext_getAttribute(x))],
        [f \in Delegates |-> Normal(formContext_getAttribute(f))])

getControl(input) ==
    getObject(input,
        [x \in Keys |-> Normal(formContext_getControl(x))],
        [f \in Delegates |-> Normal(formContext_getControl(f))])

getTab(input) ==
    getObject(input,
        [x \in Keys |->
            LET tabControl == formContext_ui_tabs_get(x).v[1]
            IN  IF Truthy(tabControl) THEN Normal(One(newTabControl(tabControl))) ELSE Normal(One(NullH))],
        [f \in Delegates |->
            LET found == formContext_ui_tabs_get(f).v
            IN  Normal(Many([i \in 1..Len(found) |-> newTabControl(found[i])]))])

RECURSIVE Flatten(_)
Flatten(ss) == IF Len(ss) = 0 THEN <<>> ELSE Head(ss) \o Flatten(Tail(ss))

\* x.map(...) / x.flatMap(...) on the value getTab() returned: a TypeError
\* unless that value is an array
getSection(input) ==
    LET all == getTab(Undefined)
        single(x) ==
            IF all.threw THEN all
            ELSE IF ~all.ret.arr THEN Thrown("getTab().map")
            ELSE LET found == SelectSeq([i \in 1..Len(all.ret.v) |-> TabControl_getSection(all.ret.v[i], x).v[1]],
                                        LAMBDA section : Truthy(section))
                 IN  IF Len(found) > 0 THEN Normal(One(found[1])) ELSE Normal(One(NullH))
        many(f) ==
            IF all.threw THEN all
            ELSE IF ~all.ret.arr THEN Thrown("getTab().flatMap")
            ELSE Normal(Many(Flatten([i \in 1..Len(all.ret.v) |-> TabControl_getSection(all.ret.v[i], f).v])))
    IN  getObject(input, [x \in Keys |-> single(x)], [f \in Delegates |-> many(f)])

warnMessage(kind, name, key) == [kind |-> kind, name |-> name, key |-> key]

getAttributeValue_Consumes(input) ==
    IF Not(input)
    THEN Completion("", One(NullH), <<warnMessage("unsupported", "getAttributeValue", input)>>, <<>>)
    ELSE getObject(input,
        [x \in Keys |->
            LET attribute == formContext_getAttribute(x).v[1]
            IN  IF attribute = NullH THEN Normal(One(NullH))
                ELSE Completion("", One(getValue(attribute)), <<>>,
                        <<[target |-> attribute, method |-> "setValue", arg |-> "null"]>>)],
        [f \in Delegates |->
            LET found == formContext_getAttribute(f).v
            IN  Normal(Many([i \in 1..Len(found) |-> getValue(found[i])]))])

getAttributeValue(input) ==
    IF Not(input)
    THEN Completion("", One(NullH), <<warnMessage("unsupported", "getAttributeValue", input)>>, <<>>)
    ELSE getObject(input,
        [x \in Keys |->
            LET attribute == formContext_getAttribute(x).v[1]
            IN  IF attribute = NullH THEN Normal(One(NullH)) ELSE Normal(One(getValue(attribute)))],
        [f \in Delegates |->
            LET found == formContext_getAttribute(f).v
            IN  Normal(Many([i \in 1..Len(found) |-> getValue(found[i])]))])

(***************************************************************************)
(* The caller                                                              *)
(***************************************************************************)
Idle == [op |-> "idle", input |-> Undefined, arg |-> "", threw |-> FALSE, error |-> "", ret |-> Void,
         warns |-> <<>>, applied |-> <<>>]

\* the effect of the host calls a facade call made, on the host form
Written_Toggle(applied, method, old, boolean) ==
    LET after[i \in 0..Len(applied)] ==
            IF i = 0 THEN old
            ELSE IF applied[i].method = method
                 THEN [after[i - 1] EXCEPT ![applied[i].target.ref] =
                            IF boolean THEN ~after[i - 1][applied[i].target.ref] ELSE applied[i].arg]
                 ELSE after[i - 1]
    IN  after[Len(applied)]

Written(applied, method, old, boolean) ==
    LET after[i \in 0..Len(applied)] ==
            IF i = 0 THEN old
            ELSE IF applied[i].method = method
                 THEN [after[i - 1] EXCEPT ![applied[i].target.ref] =
                            IF boolean THEN applied[i].arg = "true" ELSE applied[i].arg]
                 ELSE after[i - 1]
    IN  after[Len(applied)]

\* the host appends each registered handler to the event pipeline of the item
Registered_Replaces(applied, old) ==
    LET events == {"addOnChange", "addTabStateChange", "addOnLookupTagClick", "addPreSearch", "addOnLoad",
                  "addOnRecordSelect", "addOnReadyStateComplete", "addOnOutputChange", "addOnResultOpened",
                  "addOnSelection", "addOnPostSearch", "addLoaded", "addOnSave", "addOnPostSave",
                  "addOnPreProcessStatusChange", "addOnProcessStatusChange", "addOnPreStageChange",
                  "addOnStageChange", "addOnStageSelected"}
        added == SelectSeq(applied, LAMBDA a : a.method \in events)
    IN  IF added = <<>> THEN old
        ELSE [i \in 1..Len(added) |-> [target |-> added[i].target.ref, event |-> added[i].method]]

Registered(applied, old) ==
    LET events == {"addOnChange", "addTabStateChange", "addOnLookupTagClick", "addPreSearch", "addOnLoad",
                  "addOnRecordSelect", "addOnReadyStateComplete", "addOnOutputChange", "addOnResultOpened",
                  "addOnSelection", "addOnPostSearch", "addLoaded", "addOnSave", "addOnPostSave",
                  "addOnPreProcessStatusChange", "addOnProcessStatusChange", "addOnPreStageChange",
                  "addOnStageChange", "addOnStageSelected"}
        added == SelectSeq(applied, LAMBDA a : a.method \in events)
    IN  old \o [i \in 1..Len(added) |-> [target |-> added[i].target.ref, event |-> added[i].method]]

\* a facade call: its completion goes to the caller, its host calls to the form
Do(op, input, arg, c) ==
    /\ call' = [op |-> op, input |-> input, arg |-> arg, threw |-> c.threw, error |-> c.error, ret |-> c.ret,
                warns |-> c.warns, applied |-> c.applied]
    /\ value' = Written(c.applied, "setValue", value, FALSE)
    /\ requiredLevel' = Written(c.applied, "setRequiredLevel", requiredLevel, FALSE)
    /\ visible' = Written(c.applied, "setVisible", visible, TRUE)
    /\ disabled' = Written(c.applied, "setDisabled", disabled, TRUE)
    /\ handlers' = Registered(c.applied, handlers)
    /\ UNCHANGED <<attributes, controls, tabs>>

GetterInputs(names) ==
    {Undefined} \cup Indexes \cup {Name(s) : s \in names \cup {"ghost", ""}}
    \cup {Delegate(p) : p \in SUBSET names}
    \cup {Array(a) : a \in BoundedSeq(Indexes \cup {Name(s) : s \in names \cup {"ghost"}}, MaxArrayLen)}

\* the caller takes the result; the call record does not outlive the call
ReturnToCaller ==
    /\ call.op # "idle"
    /\ call' = Idle
    /\ UNCHANGED form

GetAttribute ==
    /\ call.op = "idle"
    /\ \E input \in GetterInputs(AttributeNames) : Do("getAttribute", input, "", getAttribute(input))

GetControl ==
    /\ call.op = "idle"
    /\ \E input \in GetterInputs(ControlNames) : Do("getControl", input, "", getControl(input))

GetTab ==
    /\ call.op = "idle"
    /\ \E input \in GetterInputs(TabNames) : Do("getTab", input, "", getTab(input))

GetSection ==
    /\ call.op = "idle"
    /\ \E input \in GetterInputs(SectionNames) : Do("getSection", input, "", getSection(input))

GetAttributeValue ==
    /\ call.op = "idle"
    /\ \E input \in GetterInputs(AttributeNames) \cup {Null} :
            Do("getAttributeValue", input, "", getAttributeValue(input))

InitGet ==
    /\ attributes \in {<<>>, <<"firstname">>, <<"firstname", "lastname">>}
    /\ value \in [AttributeNames -> {"null", "0", "false", "", "John"}]
    /\ requiredLevel = [a \in AttributeNames |-> "none"]
    /\ controls = <<"mobilephone", "parentid", "contacts", "map", "kb">>
    /\ visible = [c \in ControlNames |-> TRUE]
    /\ disabled = [c \in ControlNames |-> FALSE]
    /\ tabs \in {<<>>, <<"Summary", "Details">>}
    /\ handlers = <<>>
    /\ call = Idle

NextGet ==
    \/ GetAttribute
    \/ GetControl
    \/ GetTab
    \/ GetSection
    \/ GetAttributeValue
    \/ ReturnToCaller

SpecGet == InitGet /\ [][NextGet]_vars


(***************************************************************************)
(* Claims about the getters                                                *)
(***************************************************************************)
\* C3: no get*, set* or add*-handler operation of PrimaryControl ever raises
\* to its caller, whatever the specifier and the form content.
C3_NeverRaises == ~call.threw

\* C4: getSection(nameOrIndex) returns the first section with that key across
\* all tabs in tab order, or null when no tab has one; getSection(predicate)
\* returns the concatenation, in tab order, of every tab's matching sections.
C4_GetSectionAcrossTabs ==
    call.op = "getSection" =>
        LET inTab(i) == hostGet(sections(tabs[i]), "Section", call.input)
            hits == {i \in 1..Len(tabs) : inTab(i).v[1] # NullH}
            first == CHOOSE i \in hits : \A j \in hits : i <= j
        IN  /\ IsKey(call.input) =>
                /\ ~call.threw
                /\ call.ret = (IF hits = {} THEN One(NullH) ELSE inTab(first))
            /\ call.input.k = "function" =>
                /\ ~call.threw
                /\ call.ret = Many(Flatten([i \in 1..Len(tabs) |-> inTab(i).v]))

\* C5: getAttributeValue(nameOrIndex) returns the attribute's current value
\* whenever the attribute exists, whatever the value (0, false and "" too),
\* and null only when the attribute is not found or its value is null.
C5_GetAttributeValueVerbatim ==
    (call.op = "getAttributeValue" /\ IsKey(call.input)) =>
        LET attribute == formContext_getAttribute(call.input).v[1]
        IN  /\ ~call.threw
            /\ call.ret = (IF attribute = NullH THEN One(NullH) ELSE One(Handle("Value", value[attribute.ref])))

\* C6: getAttributeValue(array) has exactly one entry per element that names
\* an existing attribute, in input order, the entry being that attribute's
\* value even when the value is null.
C6_GetAttributeValueArray ==
    (call.op = "getAttributeValue" /\ call.input.k = "array") =>
        LET items == call.input.items
            found == SelectSeq([i \in 1..Len(items) |-> formContext_getAttribute(items[i]).v[1]],
                               LAMBDA a : a # NullH)
        IN  /\ ~call.threw
            /\ call.ret = Many([i \in 1..Len(found) |-> Handle("Value", value[found[i].ref])])

\* C7: getAttribute, getControl and getTab called with a name or index return
\* the item the host's single lookup returns for it (for tabs a wrapper of
\* that tab), and null exactly when the host lookup returns null.
C7_GetterMatchesHostLookup ==
    /\ (call.op = "getAttribute" /\ IsKey(call.input)) =>
            ~call.threw /\ call.ret = formContext_getAttribute(call.input)
    /\ (call.op = "getControl" /\ IsKey(call.input)) =>
            ~call.threw /\ call.ret = formContext_getControl(call.input)
    /\ (call.op = "getTab" /\ IsKey(call.input)) =>
            LET tab == formContext_ui_tabs_get(call.input).v[1]
            IN  /\ ~call.threw
                /\ call.ret = (IF tab = NullH THEN One(NullH) ELSE One(Handle("TabControl", tab.ref)))

C7_Witness ==
    /\ call.op = "getTab"
    /\ call.input = Index(0)
    /\ call.ret = One(Handle("TabControl", "Summary"))

\* C8: a resolution getter given an array returns the items resolved from the
\* elements, in input order, leaving out every element that does not
\* resolve; an unresolved element neither aborts the call nor warns.
C8_ArrayResolvesInOrder ==
    (call.op \in {"getAttribute", "getControl", "getTab", "getSection"} /\ call.input.k = "array") =>
        LET items == call.input.items
            one(x) == CASE call.op = "getAttribute" -> formContext_getAttribute(x).v[1]
                        [] call.op = "getControl" -> formContext_getControl(x).v[1]
                        [] call.op = "getTab" ->
                            LET tab == formContext_ui_tabs_get(x).v[1]
                            IN  IF tab = NullH THEN NullH ELSE Handle("TabControl", tab.ref)
                        [] OTHER ->
                            LET inTab == SelectSeq([i \in 1..Len(tabs) |-> hostGet(sections(tabs[i]), "Section", x).v[1]],
                                                   LAMBDA section : section # NullH)
                            IN  IF Len(inTab) = 0 THEN NullH ELSE inTab[1]
        IN  /\ ~call.threw
            /\ call.warns = <<>>
            /\ call.ret = Many(SelectSeq([i \in 1..Len(items) |-> one(items[i])], LAMBDA o : o # NullH))

(***************************************************************************)
(* Capability guards (CheckTypes)                                          *)
(***************************************************************************)
isObject(x) == x.k = "object"

isAttribute(x) == isObject(x) /\ "getAttributeType" \in Methods(x.o)

isTabControl(x) == isObject(x) /\ "addTabStateChange" \in Methods(x.o)

isControl(x) == isObject(x) /\ "getControlType" \in Methods(x.o)

isStandardControl(x) == isObject(x) /\ "clearNotification" \in Methods(x.o)

isLookupControl(x) == isObject(x) /\ "addOnLookupTagClick" \in Methods(x.o)

isGridControl(x) == isObject(x) /\ "getGrid" \in Methods(x.o)

isIframeControl(x) == isObject(x) /\ "getContentWindow" \in Methods(x.o)

isKbSearchControl(x) == isObject(x) /\ "addOnPostSearch" \in Methods(x.o)

isControlCanSetVisible_Alone(x) == isObject(x) /\ "setVisible" \in Methods(x.o)

isControlCanSetVisible(x) == isControl(x) /\ "setVisible" \in Methods(x.o)

isControlCanSetDisabled(x) == isControl(x) /\ "setDisabled" \in Methods(x.o)

(***************************************************************************)
(* Calls into the host                                                     *)
(***************************************************************************)
\* item.method(arg): a TypeError when the item is null or has no such method
Invoke(item, method, arg) ==
    IF item = NullH THEN Thrown("null.method")
    ELSE IF (IF method = "addOnRecordSelect" THEN "getGrid" ELSE method) \notin Methods(item)
         THEN Thrown("item.method is not a function")
    ELSE Completion("", Void, <<>>, <<[target |-> item, method |-> method, arg |-> arg]>>)

\* statement a; statement b
Then(a, b) ==
    IF a.threw THEN a
    ELSE Completion(b.error, Void, a.warns \o b.warns, a.applied \o b.applied)

\* for (const item of items) item.method(arg)
ForEach(items, method, arg) ==
    LET each[i \in 0..Len(items)] ==
            IF i = 0 THEN Normal(Void) ELSE Then(each[i - 1], Invoke(items[i], method, arg))
    IN  each[Len(items)]

\* a method read off `this` and passed as a bare function: when it is called
\* its `this` is undefined, and its first statement `this.getObject(...)`
\* is a TypeError
Unbound(method) == [x \in DOMAIN method |-> Thrown("this.getObject")]

Shapes ==
    {Instance(h) : h \in {Handle("Attribute", a) : a \in AttributeNames}
                               \cup {Handle("Control", c) : c \in ControlNames}
                               \cup {Handle("Tab", t) : t \in TabNames}
                               \cup {Handle("TabControl", t) : t \in TabNames}
                               \cup {Handle("Object", "plain")}}
    \cup {Null, Boolean}

(***************************************************************************)
(* PrimaryControl.setToObject and the setters bound to it                  *)
(***************************************************************************)
setToObject_WarnsUnhandled(input, val, getter, getterAll, valueApplier, isValid) ==
    LET one(x) ==
            IF x.k = "undefined" THEN Normal(Void)
            ELSE IF IsKey(x) THEN
                LET component == getter[x]
                IN  IF component.threw THEN component
                    ELSE IF ~Truthy(component.ret.v[1]) THEN Invoke(component.ret.v[1], valueApplier, val)
                    ELSE Normal(Void)
            ELSE IF x.k = "function" THEN
                LET components == getterAll[x]
                IN  IF components.threw THEN components ELSE ForEach(components.ret.v, valueApplier, val)
            ELSE IF isValid[x] THEN Invoke(x.o, valueApplier, val)
            ELSE Completion("", Void, <<warnMessage("unhandled", valueApplier, x)>>, <<>>)
        each[i \in 0..Len(input.items)] ==
            IF i = 0 THEN Normal(Void) ELSE Then(each[i - 1], one(input.items[i]))
    IN  IF input.k = "array" THEN each[Len(input.items)] ELSE one(input)

setToObject(input, val, getter, getterAll, valueApplier, isValid) ==
    LET one(x) ==
            IF x.k = "undefined" THEN Normal(Void)
            ELSE IF IsKey(x) THEN
                LET component == getter[x]
                IN  IF component.threw THEN component
                    ELSE IF ~Truthy(component.ret.v[1]) THEN Invoke(component.ret.v[1], valueApplier, val)
                    ELSE Normal(Void)
            ELSE IF x.k = "function" THEN
                LET components == getterAll[x]
                IN  IF components.threw THEN components ELSE ForEach(components.ret.v, valueApplier, val)
            ELSE IF isValid[x] THEN Invoke(x.o, valueApplier, val)
            ELSE Normal(Void)
        each[i \in 0..Len(input.items)] ==
            IF i = 0 THEN Normal(Void) ELSE Then(each[i - 1], one(input.items[i]))
    IN  IF input.k = "array" THEN each[Len(input.items)] ELSE one(input)

Unsupported(name, input) ==
    Completion("", Void, <<warnMessage("unsupported", name, input)>>, <<>>)

setAttributeValue(input, val) ==
    IF Not(input) THEN Unsupported("getAttributeValue", input)
    ELSE setToObject(input, val,
            Unbound([x \in Keys |-> getAttribute(x)]),
            Unbound([f \in Delegates |-> getAttribute(f)]),
            "setValue",
            [x \in Shapes |-> isAttribute(x)])

setRequiredLevel(input, requirementLevel) ==
    IF Not(input) THEN Unsupported("setRequiredLevel", input)
    ELSE setToObject(input, requirementLevel,
            Unbound([x \in Keys |-> getAttribute(x)]),
            Unbound([f \in Delegates |-> getAttribute(f)]),
            "setRequiredLevel",
            [x \in Shapes |-> isAttribute(x)])

setOptional_Required(input) ==
    IF Not(input) THEN Unsupported("setOptional", input)
    ELSE setToObject(input, "required",
            Unbound([x \in Keys |-> getAttribute(x)]),
            Unbound([f \in Delegates |-> getAttribute(f)]),
            "setRequiredLevel",
            [x \in Shapes |-> isAttribute(x)])

setOptional(input) ==
    IF Not(input) THEN Unsupported("setOptional", input)
    ELSE setToObject(input, "none",
            Unbound([x \in Keys |-> getAttribute(x)]),
            Unbound([f \in Delegates |-> getAttribute(f)]),
            "setRequiredLevel",
            [x \in Shapes |-> isAttribute(x)])

setRecommended(input) ==
    IF Not(input) THEN Unsupported("setRecommended", input)
    ELSE setToObject(input, "recommended",
            Unbound([x \in Keys |-> getAttribute(x)]),
            Unbound([f \in Delegates |-> getAttribute(f)]),
            "setRequiredLevel",
            [x \in Shapes |-> isAttribute(x)])

setMandatory(input) ==
    IF Not(input) THEN Unsupported("setMandatory", input)
    ELSE setToObject(input, "required",
            Unbound([x \in Keys |-> getAttribute(x)]),
            Unbound([f \in Delegates |-> getAttribute(f)]),
            "setRequiredLevel",
            [x \in Shapes |-> isAttribute(x)])

setVisible(input, isVisible) ==
    IF Not(input) THEN Unsupported("setVisible", input)
    ELSE setToObject(input, isVisible,
            Unbound([x \in Keys |-> getControl(x)]),
            Unbound([f \in Delegates |-> getControl(f)]),
            "setVisible",
            [x \in Shapes |-> isControlCanSetVisible(x)])

setDisabled(input, isDisabled) ==
    IF Not(input) THEN Unsupported("setDisabled", input)
    ELSE setToObject(input, isDisabled,
            Unbound([x \in Keys |-> getControl(x)]),
            Unbound([f \in Delegates |-> getControl(f)]),
            "setDisabled",
            [x \in Shapes |-> isControlCanSetDisabled(x)])

(***************************************************************************)
(* The setters, called on every shape of specifier                         *)
(***************************************************************************)

SetterInputs(names, objects) ==
    {Undefined, Null} \cup Indexes \cup {Name(s) : s \in names \cup {"ghost", ""}}
    \cup {Delegate(p) : p \in SUBSET names}
    \cup {Instance(h) : h \in objects}
    \cup {Array(a) : a \in BoundedSeq({Index(0), Name(CHOOSE s \in names : TRUE), Name("ghost")}
                                        \cup {Instance(h) : h \in objects}, MaxArrayLen)}

AttributeInputs ==
    SetterInputs(AttributeNames,
        {Handle("Attribute", "firstname"), Handle("Attribute", "lastname"), Handle("Object", "plain")})

SetAttributeValue ==
    /\ call.op = "idle"
    /\ \E input \in AttributeInputs, val \in {"John", "0"} :
            Do("setAttributeValue", input, val, setAttributeValue(input, val))

SetRequiredLevel ==
    /\ call.op = "idle"
    /\ \E input \in AttributeInputs, requirementLevel \in {"none", "recommended", "required"} :
            Do("setRequiredLevel", input, requirementLevel, setRequiredLevel(input, requirementLevel))

SetOptional ==
    /\ call.op = "idle"
    /\ \E input \in AttributeInputs : Do("setOptional", input, "none", setOptional(input))

SetRecommended ==
    /\ call.op = "idle"
    /\ \E input \in AttributeInputs : Do("setRecommended", input, "recommended", setRecommended(input))

SetMandatory ==
    /\ call.op = "idle"
    /\ \E input \in AttributeInputs : Do("setMandatory", input, "required", setMandatory(input))

SetVisible ==
    /\ call.op = "idle"
    /\ \E input \in SetterInputs({"mobilephone", "contacts"},
                        {Handle("Control", "mobilephone"), Handle("Control", "contacts"),
                         Handle("Object", "plain")}),
          isVisible \in {"true", "false"} :
            Do("setVisible", input, isVisible, setVisible(input, isVisible))

SetDisabled ==
    /\ call.op = "idle"
    /\ \E input \in SetterInputs({"mobilephone", "contacts"},
                        {Handle("Control", "mobilephone"), Handle("Control", "contacts"),
                         Handle("Object", "plain")}),
          isDisabled \in {"true", "false"} :
            Do("setDisabled", input, isDisabled, setDisabled(input, isDisabled))

InitSet ==
    /\ attributes \in {<<>>, <<"firstname", "lastname">>}
    /\ value = [a \in AttributeNames |-> "null"]
    /\ requiredLevel = [a \in AttributeNames |-> "none"]
    /\ controls = <<"mobilephone", "parentid", "contacts", "map", "kb">>
    /\ visible = [c \in ControlNames |-> TRUE]
    /\ disabled = [c \in ControlNames |-> FALSE]
    /\ tabs = <<"Summary", "Details">>
    /\ handlers = <<>>
    /\ call = Idle

NextSet ==
    \/ SetAttributeValue
    \/ SetRequiredLevel
    \/ SetOptional
    \/ SetRecommended
    \/ SetMandatory
    \/ SetVisible
    \/ SetDisabled
    \/ ReturnToCaller

SpecSet == InitSet /\ [][NextSet]_vars

(***************************************************************************)
(* Claims about the setters                                                *)
(***************************************************************************)
\* C1: for a name or index that exists in the form, setAttributeValue(name, v)
\* calls the host write on that item exactly once with v, so that afterwards
\* the item holds v; likewise setRequiredLevel, setVisible and setDisabled.
C1_SetterWritesOnce ==
    LET attribute == formContext_getAttribute(call.input).v[1]
        control == formContext_getControl(call.input).v[1]
        once(item, method) ==
            /\ ~call.threw
            /\ call.applied = <<[target |-> item, method |-> method, arg |-> call.arg]>>
    IN  /\ (call.op = "setAttributeValue" /\ IsKey(call.input) /\ attribute # NullH) =>
                once(attribute, "setValue") /\ value[attribute.ref] = call.arg
        /\ (call.op = "setRequiredLevel" /\ IsKey(call.input) /\ attribute # NullH) =>
                once(attribute, "setRequiredLevel") /\ requiredLevel[attribute.ref] = call.arg
        /\ (call.op = "setVisible" /\ IsKey(call.input) /\ control # NullH) =>
                once(control, "setVisible") /\ visible[control.ref] = (call.arg = "true")
        /\ (call.op = "setDisabled" /\ IsKey(call.input) /\ control # NullH
                /\ "setDisabled" \in Methods(control)) =>
                once(control, "setDisabled") /\ disabled[control.ref] = (call.arg = "true")

\* C2: for a name or index that is not in the addressed collection, a setter
\* makes no host write, never calls the mutation on a null item, and emits
\* no warning.
C2_MissSilent ==
    LET attributeOps == {"setAttributeValue", "setRequiredLevel", "setOptional", "setRecommended", "setMandatory"}
        missing == IF call.op \in attributeOps
                   THEN formContext_getAttribute(call.input).v[1] = NullH
                   ELSE formContext_getControl(call.input).v[1] = NullH
    IN  (call.op \in attributeOps \cup {"setVisible", "setDisabled"} /\ IsKey(call.input) /\ missing) =>
            /\ call.applied = <<>>
            /\ call.error # "null.method"
            /\ call.warns = <<>>

(***************************************************************************)
(* PrimaryControl.addHandler and the handler registrations bound to it     *)
(***************************************************************************)
addHandler_SilentFallthrough(input, get, getDelegate, apply, isValid, addHandlerName) ==
    LET warn(kind, x) == Completion("", Void, <<warnMessage(kind, addHandlerName, x)>>, <<>>)
        one(x) ==
            IF x.k = "undefined" THEN warn("unsupported", x)
            ELSE IF IsKey(x) THEN
                LET item == get[x]
                IN  IF item.threw THEN item
                    ELSE IF Truthy(item.ret.v[1]) THEN Invoke(item.ret.v[1], apply, "handler")
                    ELSE warn("not found", x)
            ELSE IF x.k = "function" THEN
                LET items == getDelegate[x]
                IN  IF items.threw THEN items ELSE ForEach(items.ret.v, apply, "handler")
            ELSE IF isValid[x] THEN Invoke(x.o, apply, "handler")
            ELSE Normal(Void)
        each[i \in 0..Len(input.items)] ==
            IF i = 0 THEN Normal(Void) ELSE Then(each[i - 1], one(input.items[i]))
    IN  IF input.k = "array" THEN each[Len(input.items)] ELSE one(input)

addHandler_LastFirst(input, get, getDelegate, apply, isValid, addHandlerName) ==
    LET warn(kind, x) == Completion("", Void, <<warnMessage(kind, addHandlerName, x)>>, <<>>)
        one(x) ==
            IF x.k = "undefined" THEN warn("unsupported", x)
            ELSE IF IsKey(x) THEN
                LET item == get[x]
                IN  IF item.threw THEN item
                    ELSE IF Truthy(item.ret.v[1]) THEN Invoke(item.ret.v[1], apply, "handler")
                    ELSE warn("not found", x)
            ELSE IF x.k = "function" THEN
                LET items == getDelegate[x]
                IN  IF items.threw THEN items ELSE ForEach(items.ret.v, apply, "handler")
            ELSE IF isValid[x] THEN Invoke(x.o, apply, "handler")
            ELSE warn("unhandled", x)
        each[i \in 0..Len(input.items)] ==
            IF i = 0 THEN Normal(Void) ELSE Then(one(input.items[i]), each[i - 1])
    IN  IF input.k = "array" THEN each[Len(input.items)] ELSE one(input)

addHandler(input, get, getDelegate, apply, isValid, addHandlerName) ==
    LET warn(kind, x) == Completion("", Void, <<warnMessage(kind, addHandlerName, x)>>, <<>>)
        one(x) ==
            IF x.k = "undefined" THEN warn("unsupported", x)
            ELSE IF IsKey(x) THEN
                LET item == get[x]
                IN  IF item.threw THEN item
                    ELSE IF Truthy(item.ret.v[1]) THEN Invoke(item.ret.v[1], apply, "handler")
                    ELSE warn("not found", x)
            ELSE IF x.k = "function" THEN
                LET items == getDelegate[x]
                IN  IF items.threw THEN items ELSE ForEach(items.ret.v, apply, "handler")
            ELSE IF isValid[x] THEN Invoke(x.o, apply, "handler")
            ELSE warn("unhandled", x)
        each[i \in 0..Len(input.items)] ==
            IF i = 0 THEN Normal(Void) ELSE Then(each[i - 1], one(input.items[i]))
    IN  IF input.k = "array" THEN each[Len(input.items)] ELSE one(input)

addOnChange(input) ==
    addHandler(input,
        [x \in Keys |-> getAttribute(x)],
        [f \in Delegates |-> getAttribute(f)],
        "addOnChange",
        [x \in Shapes |-> isAttribute(x)],
        "addOnChange")

addTabStateChange(input) ==
    addHandler(input,
        [x \in Keys |-> getTab(x)],
        [f \in Delegates |-> getTab(f)],
        "addTabStateChange",
        [x \in Shapes |-> isTabControl(x)],
        "addTabStateChange")

addOnLookupTagClick(input) ==
    addHandler(input,
        [x \in Keys |-> getControl(x)],
        [f \in Delegates |-> getControl(f)],
        "addOnLookupTagClick",
        [x \in Shapes |-> isLookupControl(x)],
        "addOnLookupTagClick")

addPreSearch(input) ==
    addHandler(input,
        [x \in Keys |-> getControl(x)],
        [f \in Delegates |-> getControl(f)],
        "addPreSearch",
        [x \in Shapes |-> isLookupControl(x)],
        "addPreSearch")

addSubGridOnLoad(input) ==
    addHandler(input,
        [x \in Keys |-> getControl(x)],
        [f \in Delegates |-> getControl(f)],
        "addOnLoad",
        [x \in Shapes |-> isGridControl(x)],
        "addSubGridOnLoad")

addSubGridOnRecordSelect(input) ==
    addHandler(input,
        [x \in Keys |-> getControl(x)],
        [f \in Delegates |-> getControl(f)],
        "addOnRecordSelect",
        [x \in Shapes |-> isGridControl(x)],
        "addSubGridOnSave")

addOnReadyStateComplete(input) ==
    addHandler(input,
        [x \in Keys |-> getControl(x)],
        [f \in Delegates |-> getControl(f)],
        "addOnReadyStateComplete",
        [x \in Shapes |-> isIframeControl(x)],
        "addOnReadyStateComplete")

addOnOutputChange(input) ==
    addHandler(input,
        [x \in Keys |-> getControl(x)],
        [f \in Delegates |-> getControl(f)],
        "addOnOutputChange",
        [x \in Shapes |-> isStandardControl(x)],
        "addOnOutputChange")

addOnResultOpened(input) ==
    addHandler(input,
        [x \in Keys |-> getControl(x)],
        [f \in Delegates |-> getControl(f)],
        "addOnResultOpened",
        [x \in Shapes |-> isKbSearchControl(x)],
        "addOnResultOpened")

addOnSelection(input) ==
    addHandler(input,
        [x \in Keys |-> getControl(x)],
        [f \in Delegates |-> getControl(f)],
        "addOnSelection",
        [x \in Shapes |-> isKbSearchControl(x)],
        "addOnSelection")

addOnPostSearch(input) ==
    addHandler(input,
        [x \in Keys |-> getControl(x)],
        [f \in Delegates |-> getControl(f)],
        "addOnPostSearch",
        [x \in Shapes |-> isKbSearchControl(x)],
        "addOnPostSearch")

(***************************************************************************)
(* The handler registrations, called on every shape of specifier           *)
(***************************************************************************)
AddInputs(names, elems, objects) ==
    {Undefined, Null, Boolean} \cup Indexes \cup {Name(s) : s \in names \cup {"ghost", ""}}
    \cup {Delegate(p) : p \in SUBSET names}
    \cup {Instance(h) : h \in objects}
    \cup {Array(a) : a \in BoundedSeq(elems, MaxArrayLen)}

AddControlInputs ==
    AddInputs(ControlNames,
        {Undefined, Index(1), Name("contacts"), Name("kb"), Name("ghost"),
         Instance(Handle("Control", "map")), Instance(Handle("Object", "plain"))},
        {Handle("Control", c) : c \in ControlNames} \cup {Handle("Attribute", "firstname"), Handle("Object", "plain")})

\* the call is made while the host pipelines have room for what it registers
Add(op, input, c) ==
    /\ Len(handlers) + Len(c.applied) <= MaxHandlers
    /\ Do(op, input, "handler", c)

AddOnChange ==
    /\ call.op = "idle"
    /\ \E input \in AddInputs(AttributeNames,
                        {Undefined, Boolean, Index(0), Name("lastname"), Name("ghost"),
                         Instance(Handle("Attribute", "firstname")), Instance(Handle("Object", "plain"))},
                        {Handle("Attribute", a) : a \in AttributeNames}
                        \cup {Handle("Control", "mobilephone"), Handle("Object", "plain")}) :
            Add("addOnChange", input, addOnChange(input))

AddTabStateChange ==
    /\ call.op = "idle"
    /\ \E input \in AddInputs(TabNames,
                        {Undefined, Index(0), Name("Details"), Name("ghost"),
                         Instance(Handle("Tab", "Summary")), Instance(Handle("TabControl", "Details")),
                         Instance(Handle("Object", "plain"))},
                        {Handle("Tab", t) : t \in TabNames} \cup {Handle("TabControl", t) : t \in TabNames}
                        \cup {Handle("Object", "plain")}) :
            Add("addTabStateChange", input, addTabStateChange(input))

AddOnLookupTagClick ==
    /\ call.op = "idle"
    /\ \E input \in AddControlInputs : Add("addOnLookupTagClick", input, addOnLookupTagClick(input))

AddPreSearch ==
    /\ call.op = "idle"
    /\ \E input \in AddControlInputs : Add("addPreSearch", input, addPreSearch(input))

AddSubGridOnLoad ==
    /\ call.op = "idle"
    /\ \E input \in AddControlInputs : Add("addSubGridOnLoad", input, addSubGridOnLoad(input))

AddSubGridOnRecordSelect ==
    /\ call.op = "idle"
    /\ \E input \in AddControlInputs : Add("addSubGridOnRecordSelect", input, addSubGridOnRecordSelect(input))

AddOnReadyStateComplete ==
    /\ call.op = "idle"
    /\ \E input \in AddControlInputs : Add("addOnReadyStateComplete", input, addOnReadyStateComplete(input))

AddOnOutputChange ==
    /\ call.op = "idle"
    /\ \E input \in AddControlInputs : Add("addOnOutputChange", input, addOnOutputChange(input))

AddOnResultOpened ==
    /\ call.op = "idle"
    /\ \E input \in AddControlInputs : Add("addOnResultOpened", input, addOnResultOpened(input))

AddOnSelection ==
    /\ call.op = "idle"
    /\ \E input \in AddControlInputs : Add("addOnSelection", input, addOnSelection(input))

AddOnPostSearch ==
    /\ call.op = "idle"
    /\ \E input \in AddControlInputs : Add("addOnPostSearch", input, addOnPostSearch(input))

InitAdd ==
    /\ attributes = <<"firstname", "lastname">>
    /\ value = [a \in AttributeNames |-> "null"]
    /\ requiredLevel = [a \in AttributeNames |-> "none"]
    /\ controls = <<"mobilephone", "parentid", "contacts", "map", "kb">>
    /\ visible = [c \in ControlNames |-> TRUE]
    /\ disabled = [c \in ControlNames |-> FALSE]
    /\ tabs = <<"Summary", "Details">>
    /\ handlers = <<>>
    /\ call = Idle

NextAdd ==
    \/ AddOnChange
    \/ AddTabStateChange
    \/ AddOnLookupTagClick
    \/ AddPreSearch
    \/ AddSubGridOnLoad
    \/ AddSubGridOnRecordSelect
    \/ AddOnReadyStateComplete
    \/ AddOnOutputChange
    \/ AddOnResultOpened
    \/ AddOnSelection
    \/ AddOnPostSearch
    \/ ReturnToCaller

SpecAdd == InitAdd /\ [][NextAdd]_vars

(***************************************************************************)
(* Claims about the handler registrations                                  *)
(***************************************************************************)
\* C9: a handler registration called with one name or index that does not
\* exist attaches the handler to nothing and reports exactly one warning,
\* whose text names the operation and the unresolved key.
C9_MissWarnsOnce ==
    LET found == CASE call.op = "addOnChange" -> formContext_getAttribute(call.input)
                   [] call.op = "addTabStateChange" -> formContext_ui_tabs_get(call.input)
                   [] OTHER -> formContext_getControl(call.input)
    IN  (call.op \in {"addOnChange", "addTabStateChange", "addOnLookupTagClick", "addPreSearch",
                      "addSubGridOnLoad", "addSubGridOnRecordSelect", "addOnReadyStateComplete",
                      "addOnOutputChange", "addOnResultOpened", "addOnSelection", "addOnPostSearch"}
            /\ IsKey(call.input) /\ found.v[1] = NullH) =>
            /\ ~call.threw
            /\ call.applied = <<>>
            /\ call.warns = <<warnMessage("not found", call.op, call.input)>>

\* C10: a handler registration given a predicate attaches the handler to
\* every item of the collection the predicate accepts and to no other item;
\* when no item matches, nothing is attached and nothing is reported.
C10_PredicateAttachesToMatches ==
    LET matches == CASE call.op = "addOnChange" -> formContext_getAttribute(call.input).v
                     [] call.op = "addTabStateChange" -> formContext_ui_tabs_get(call.input).v
                     [] OTHER -> formContext_getControl(call.input).v
    IN  (call.op \in {"addOnChange", "addTabStateChange", "addOnLookupTagClick", "addPreSearch",
                      "addSubGridOnLoad", "addSubGridOnRecordSelect", "addOnReadyStateComplete",
                      "addOnOutputChange", "addOnResultOpened", "addOnSelection", "addOnPostSearch"}
            /\ call.input.k = "function") =>
            /\ call.warns = <<>>
            /\ \A i \in 1..Len(matches) : \E j \in 1..Len(call.applied) : call.applied[j].target.ref = matches[i].ref
            /\ \A j \in 1..Len(call.applied) : \E i \in 1..Len(matches) : call.applied[j].target.ref = matches[i].ref

(***************************************************************************)
(* The facade operations by family, and what each one addresses            *)
(***************************************************************************)

Setters ==
    {"setAttributeValue", "setRequiredLevel", "setOptional", "setRecommended", "setMandatory",
     "setVisible", "setDisabled"}

Getters == {"getAttribute", "getControl", "getTab", "getSection", "getAttributeValue"}

Registrations == {"addOnChange", "addTabStateChange", "addOnLookupTagClick", "addPreSearch",
                  "addSubGridOnLoad", "addSubGridOnRecordSelect", "addOnReadyStateComplete",
                  "addOnOutputChange", "addOnResultOpened", "addOnSelection", "addOnPostSearch"}

\* the host collection an operation looks its names, indexes and predicates up in
Collection(op, input) ==
    CASE op \in {"setAttributeValue", "setRequiredLevel", "setOptional", "setRecommended", "setMandatory",
                 "addOnChange", "getAttribute", "getAttributeValue"} ->
            formContext_getAttribute(input)
      [] op \in {"addTabStateChange", "getTab"} -> formContext_ui_tabs_get(input)
      [] OTHER -> formContext_getControl(input)

\* the type guard an operation passes to its engine as isValid
Guard(op, x) ==
    CASE op \in {"setAttributeValue", "setRequiredLevel", "setOptional", "setRecommended", "setMandatory",
                 "addOnChange"} -> isAttribute(x)
      [] op = "setVisible" -> isControlCanSetVisible(x)
      [] op = "setDisabled" -> isControlCanSetDisabled(x)
      [] op = "addTabStateChange" -> isTabControl(x)
      [] op \in {"addOnLookupTagClick", "addPreSearch"} -> isLookupControl(x)
      [] op \in {"addSubGridOnLoad", "addSubGridOnRecordSelect"} -> isGridControl(x)
      [] op = "addOnReadyStateComplete" -> isIframeControl(x)
      [] op = "addOnOutputChange" -> isStandardControl(x)
      [] op \in {"addOnResultOpened", "addOnSelection", "addOnPostSearch"} -> isKbSearchControl(x)
      [] OTHER -> FALSE

(***************************************************************************)
(* Claims about predicates and capability guards                           *)
(***************************************************************************)
\* C11: setVisible(predicate, b) leaves every control the predicate accepts
\* with visibility b and makes no host write on any other control or of any
\* other property; likewise setDisabled(predicate, b) for the disabled state
\* of the accepted controls that can be disabled.
C11_PredicateSetsMatches ==
    LET found == formContext_getControl(call.input).v
        matches == {found[i] : i \in {j \in 1..Len(found) : Guard(call.op, Instance(found[j]))}}
    IN  (call.op \in {"setVisible", "setDisabled"} /\ call.input.k = "function") =>
            /\ \A c \in matches :
                    IF call.op = "setVisible" THEN visible[c.ref] = (call.arg = "true")
                    ELSE disabled[c.ref] = (call.arg = "true")
            /\ \A j \in 1..Len(call.applied) :
                    /\ call.applied[j].target \in matches
                    /\ call.applied[j].method = call.op
                    /\ call.applied[j].arg = call.arg

\* C12: when the name, index or predicate given to a setter or a handler
\* registration resolves to an item that fails the operation's capability
\* guard, the mutation or attach function is never invoked on that item and
\* no warning is reported.
C12_IncapableItemSkipped ==
    LET found == Collection(call.op, call.input).v
        incapable == {h \in {found[i] : i \in 1..Len(found)} :
                        h # NullH /\ ~Guard(call.op, Instance(h))}
    IN  (call.op \in Setters \cup Registrations
            /\ (IsKey(call.input) \/ call.input.k = "function")
            /\ incapable # {}) =>
            /\ call.error # "item.method is not a function"
            /\ \A j \in 1..Len(call.applied) : call.applied[j].target \notin incapable
            /\ call.warns = <<>>

(***************************************************************************)
(* Every operation of the facade, called on a form as the host built it    *)
(***************************************************************************)
\* no earlier call has changed a requirement level, a flag or a pipeline;
\* no operation of the facade reads any of them
Pristine ==
    /\ requiredLevel = [a \in AttributeNames |-> "none"]
    /\ visible = [c \in ControlNames |-> TRUE]
    /\ disabled = [c \in ControlNames |-> FALSE]
    /\ handlers = <<>>

InitCall ==
    /\ attributes \in {<<>>, <<"firstname">>, <<"firstname", "lastname">>}
    /\ value \in [AttributeNames -> {"null", "0", "false", "", "John"}]
    /\ controls = <<"mobilephone", "parentid", "contacts", "map", "kb">>
    /\ tabs \in {<<>>, <<"Summary", "Details">>}
    /\ Pristine
    /\ call = Idle

NextCall ==
    \/ Pristine /\ GetAttribute
    \/ Pristine /\ GetControl
    \/ Pristine /\ GetTab
    \/ Pristine /\ GetSection
    \/ Pristine /\ GetAttributeValue
    \/ Pristine /\ SetAttributeValue
    \/ Pristine /\ SetRequiredLevel
    \/ Pristine /\ SetOptional
    \/ Pristine /\ SetRecommended
    \/ Pristine /\ SetMandatory
    \/ Pristine /\ SetVisible
    \/ Pristine /\ SetDisabled
    \/ Pristine /\ AddOnChange
    \/ Pristine /\ AddTabStateChange
    \/ Pristine /\ AddOnLookupTagClick
    \/ Pristine /\ AddPreSearch
    \/ Pristine /\ AddSubGridOnLoad
    \/ Pristine /\ AddSubGridOnRecordSelect
    \/ Pristine /\ AddOnReadyStateComplete
    \/ Pristine /\ AddOnOutputChange
    \/ Pristine /\ AddOnResultOpened
    \/ Pristine /\ AddOnSelection
    \/ Pristine /\ AddOnPostSearch
    \/ ReturnToCaller

SpecCall == InitCall /\ [][NextCall]_vars

C14_UnrecognizedWarnsOnce ==
    (call.op \in Registrations
        /\ \/ call.input.k \in {"undefined", "null", "boolean"}
           \/ call.input.k = "object" /\ ~Guard(call.op, call.input)) =>
        /\ ~call.threw
        /\ call.applied = <<>>
        /\ Len(call.warns) = 1
        /\ call.warns[1].name = call.op

(***************************************************************************)
(* Claims about array specifiers                                           *)
(***************************************************************************)
\* the item one array element addresses: looked up for a name or an index,
\* itself for an instance, none otherwise
Addressed(op, e) ==
    IF IsKey(e) THEN Collection(op, e).v[1] ELSE IF e.k = "object" THEN e.o ELSE NullH

\* C15: a handler registration given an array handles each element on its
\* own: the handler is attached once, in order, for each element that
\* addresses a capable item, exactly one warning is reported for each element
\* that addresses nothing or has an unrecognized shape, and the call does not
\* stop at any element.
C15_ArrayRegistersPerElement ==
    LET items == call.input.items
        attaches(e) == Addressed(call.op, e) # NullH /\ Guard(call.op, Instance(Addressed(call.op, e)))
        fails(e) == \/ IsKey(e) /\ Addressed(call.op, e) = NullH
                    \/ e.k \in {"undefined", "null", "boolean"}
                    \/ e.k = "object" /\ ~Guard(call.op, e)
        expected[i \in 0..Len(items)] ==
            IF i = 0 THEN <<>>
            ELSE IF attaches(items[i]) THEN Append(expected[i - 1], Addressed(call.op, items[i]).ref)
            ELSE expected[i - 1]
    IN  (call.op \in Registrations /\ call.input.k = "array") =>
            /\ ~call.threw
            /\ [j \in 1..Len(call.applied) |-> call.applied[j].target.ref] = expected[Len(items)]
            /\ Len(call.warns) = Cardinality({i \in 1..Len(items) : fails(items[i])})

\* C16: a setter given an array applies the same value once, in order, to
\* every element that addresses a capable item (by name, by index or as an
\* instance), skips every other element without a report, and does not stop
\* at any element.
C16_ArrayAppliesPerElement ==
    LET items == call.input.items
        applies(e) == Addressed(call.op, e) # NullH /\ Guard(call.op, Instance(Addressed(call.op, e)))
        expected[i \in 0..Len(items)] ==
            IF i = 0 THEN <<>>
            ELSE IF applies(items[i]) THEN Append(expected[i - 1], Addressed(call.op, items[i]))
            ELSE expected[i - 1]
    IN  (call.op \in Setters /\ call.input.k = "array") =>
            /\ ~call.threw
            /\ [j \in 1..Len(call.applied) |-> call.applied[j].target] = expected[Len(items)]
            /\ \A j \in 1..Len(call.applied) : call.applied[j].arg = call.arg
            /\ call.warns = <<>>

(***************************************************************************)
(* Claims about the facade guards and the warnings                         *)
(***************************************************************************)
\* C17: getAttributeValue and every setter accept every index, 0 included:
\* the index is never reported as an unsupported input, getAttributeValue(n)
\* returns the value of the attribute at position n (null when there is
\* none), and a setter writes its value once to the capable item at
\* position n and to nothing else.
C17_IndexAccepted ==
    LET item == Addressed(call.op, call.input)
        capable == item # NullH /\ Guard(call.op, Instance(item))
    IN  (call.op \in Setters \cup {"getAttributeValue"} /\ call.input.k = "number") =>
            /\ \A j \in 1..Len(call.warns) : call.warns[j].kind # "unsupported"
            /\ call.op = "getAttributeValue" =>
                    call.ret = One(IF item = NullH THEN NullH ELSE getValue(item))
            /\ call.op \in Setters =>
                    /\ capable => /\ Len(call.applied) = 1
                                  /\ call.applied[1].target = item
                                  /\ call.applied[1].arg = call.arg
                    /\ ~capable => call.applied = <<>>

C19_WarningNamesOperation ==
    call.op \in Getters \cup Setters \cup Registrations =>
        \A j \in 1..Len(call.warns) : call.warns[j].name = call.op

isExecutionContext(context) == isObject(context) /\ "getFormContext" \in Methods(context.o)

\* executionContext.getFormContext(): the form the event was raised on
getFormContext(executionContext) ==
    Handle("Xrm.FormContext", IF executionContext.ref = "onLoad" THEN "page" ELSE "quickCreate")

\* new PrimaryControl(context)
newPrimaryControl(context) ==
    [class |-> "PrimaryControl", formContext |-> context, executionContext |-> Undefined]

Provider_from_NoDetection(context) ==
    IF ~Not(context) THEN Normal(newPrimaryControl(context))
    ELSE Thrown("Invalid context provided")

Provider_from(context) ==
    IF ~Not(context) THEN
        IF isExecutionContext(context)
        THEN Normal([class |-> "FormContext", formContext |-> Instance(getFormContext(context.o)),
                     executionContext |-> context])
        ELSE Normal(newPrimaryControl(context))
    ELSE Thrown("Invalid context provided")

From ==
    /\ call.op = "idle"
    /\ \E context \in {Undefined, Null, Boolean, Index(0), Index(1), Name(""), Name("text"), Delegate({}),
                        Instance(Handle("Object", "plain")), Instance(Handle("Attribute", "firstname")),
                        Instance(Handle("Xrm.FormContext", "page")),
                        Instance(Handle("Xrm.FormContext", "quickCreate")),
                        Instance(Handle("Xrm.EventContext", "onLoad")),
                        Instance(Handle("Xrm.EventContext", "onSave"))} :
            Do("from", context, "", Provider_from(context))

NextFrom ==
    \/ From
    \/ ReturnToCaller

SpecFrom == InitCall /\ [][NextFrom]_vars

(***************************************************************************)
(* Claims about the factory                                                *)
(***************************************************************************)
\* C21: Provider.from(context) returns a FormContext exactly when context is
\* a non-null object exposing getFormContext, and that wrapper holds
\* context.getFormContext() as its form and context as its execution
\* context; given a form context it returns a plain PrimaryControl holding
\* that very form context.
C21_FromDetectsContext ==
    (call.op = "from" /\ ~call.threw) =>
        /\ call.ret.class = "FormContext" <=>
                (call.input.k = "object" /\ "getFormContext" \in Methods(call.input.o))
        /\ call.ret.class = "FormContext" =>
                /\ call.ret.formContext = Instance(getFormContext(call.input.o))
                /\ call.ret.executionContext = call.input
        /\ (call.input.k = "object" /\ call.input.o.cls = "Xrm.FormContext") =>
                /\ call.ret.class = "PrimaryControl"
                /\ call.ret.formContext = call.input

C21_Witness ==
    /\ call.op = "from"
    /\ call.input = Instance(Handle("Xrm.EventContext", "onSave"))
    /\ ~call.threw
    /\ call.ret.class = "FormContext"
    /\ call.ret.formContext = Instance(Handle("Xrm.FormContext", "quickCreate"))

\* C22: Provider.from raises whenever its argument is absent (undefined,
\* null) or is neither an event context nor a form context, and never
\* returns a wrapper around such a value.
C22_FromRejectsInvalid ==
    (call.op = "from"
        /\ ~(call.input.k = "object" /\ call.input.o.cls \in {"Xrm.EventContext", "Xrm.FormContext"})) =>
        call.threw

(***************************************************************************)
(* CheckTypes: the type guards, applied to any value                       *)
(***************************************************************************)
isDateControl(x) == isObject(x) /\ "getShowTime" \in Methods(x.o)

isOptionSetControl(x) == isObject(x) /\ "addOption" \in Methods(x.o)

\* the values a guard may be handed: non-objects, host items, contexts, and
\* objects exposing one guarded method, alone or next to getControlType
GuardInputs ==
    {Undefined, Null, Boolean, Index(0), Name("text"), Delegate({}), Array(<<>>)}
    \cup {Instance(h) : h \in {Handle("Attribute", a) : a \in AttributeNames}
                               \cup {Handle("Control", c) : c \in ControlNames}
                               \cup {Handle("Tab", t) : t \in TabNames}
                               \cup {Handle("TabControl", t) : t \in TabNames}
                               \cup {Handle("Object", "plain")}}
    \cup {Instance(Handle("Section", s)) : s \in SectionNames}
    \cup {Instance(Handle("Xrm.FormContext", "page")), Instance(Handle("Xrm.EventContext", "onLoad"))}
    \cup {Instance(Handle(cls, m)) :
            cls \in {"Duck", "DuckControl"},
            m \in {"getAttributeType", "addTabStateChange", "getControlType", "clearNotification",
                   "addOnLookupTagClick", "getShowTime", "addOption", "getGrid", "getContentWindow",
                   "addOnPostSearch", "getFormContext", "setVisible", "setDisabled"}}

\* a guard's boolean result
Bool(b) == Normal(One(Handle("Value", IF b THEN "true" ELSE "false")))

IsAttribute ==
    /\ call.op = "idle"
    /\ \E x \in GuardInputs : Do("isAttribute", x, "", Bool(isAttribute(x)))

IsTabControl ==
    /\ call.op = "idle"
    /\ \E x \in GuardInputs : Do("isTabControl", x, "", Bool(isTabControl(x)))

IsControl ==
    /\ call.op = "idle"
    /\ \E x \in GuardInputs : Do("isControl", x, "", Bool(isControl(x)))

IsStandardControl ==
    /\ call.op = "idle"
    /\ \E x \in GuardInputs : Do("isStandardControl", x, "", Bool(isStandardControl(x)))

IsLookupControl ==
    /\ call.op = "idle"
    /\ \E x \in GuardInputs : Do("isLookupControl", x, "", Bool(isLookupControl(x)))

IsDateControl ==
    /\ call.op = "idle"
    /\ \E x \in GuardInputs : Do("isDateControl", x, "", Bool(isDateControl(x)))

IsOptionSetControl ==
    /\ call.op = "idle"
    /\ \E x \in GuardInputs : Do("isOptionSetControl", x, "", Bool(isOptionSetControl(x)))

IsGridControl ==
    /\ call.op = "idle"
    /\ \E x \in GuardInputs : Do("isGridControl", x, "", Bool(isGridControl(x)))

IsIframeControl ==
    /\ call.op = "idle"
    /\ \E x \in GuardInputs : Do("isIframeControl", x, "", Bool(isIframeControl(x)))

IsKbSearchControl ==
    /\ call.op = "idle"
    /\ \E x \in GuardInputs : Do("isKbSearchControl", x, "", Bool(isKbSearchControl(x)))

IsExecutionContext ==
    /\ call.op = "idle"
    /\ \E x \in GuardInputs : Do("isExecutionContext", x, "", Bool(isExecutionContext(x)))

IsControlCanSetVisible ==
    /\ call.op = "idle"
    /\ \E x \in GuardInputs : Do("isControlCanSetVisible", x, "", Bool(isControlCanSetVisible(x)))

IsControlCanSetDisabled ==
    /\ call.op = "idle"
    /\ \E x \in GuardInputs : Do("isControlCanSetDisabled", x, "", Bool(isControlCanSetDisabled(x)))

NextGuard ==
    \/ IsAttribute
    \/ IsTabControl
    \/ IsControl
    \/ IsStandardControl
    \/ IsLookupControl
    \/ IsDateControl
    \/ IsOptionSetControl
    \/ IsGridControl
    \/ IsIframeControl
    \/ IsKbSearchControl
    \/ IsExecutionContext
    \/ IsControlCanSetVisible
    \/ IsControlCanSetDisabled
    \/ ReturnToCaller

SpecGuard == InitCall /\ [][NextGuard]_vars

C24_AliasesEqualSetRequiredLevel ==
    [][(call.op = "idle" /\ call'.op \in {"setOptional", "setRecommended", "setMandatory"}) =>
            LET level == CASE call'.op = "setOptional" -> "none"
                           [] call'.op = "setRecommended" -> "recommended"
                           [] OTHER -> "required"
                same == setRequiredLevel(call'.input, level)
            IN  /\ call'.applied = same.applied
                /\ call'.threw = same.threw
                /\ requiredLevel' = Written(same.applied, "setRequiredLevel", requiredLevel, FALSE)
                /\ value' = Written(same.applied, "setValue", value, FALSE)
                /\ visible' = Written(same.applied, "setVisible", visible, TRUE)
                /\ disabled' = Written(same.applied, "setDisabled", disabled, TRUE)
                /\ handlers' = Registered(same.applied, handlers)
                /\ UNCHANGED <<attributes, controls, tabs>>]_vars

C24_Witness ==
    /\ call.op = "setMandatory"
    /\ call.input = Array(<<Instance(Handle("Attribute", "lastname")), Instance(Handle("Object", "plain"))>>)
    /\ Len(call.applied) = 1
    /\ requiredLevel["lastname"] = "required"
    /\ requiredLevel["firstname"] = "recommended"

(***************************************************************************)
(* Claims about the order of the host calls                                *)
(***************************************************************************)
\* C25: the host calls a setter or a handler registration makes follow the
\* input: for an array, the calls are made on the items its elements
\* address, in the order of the elements (a call for element i before any
\* call for a later element); for a predicate, the calls are made on the
\* items the host collection returned, in the order it returned them.
C25_DispatchOrder ==
    LET items == call.input.items
        found == Collection(call.op, call.input).v
        done == [j \in 1..Len(call.applied) |-> call.applied[j].target.ref]
    IN  /\ (call.op \in Setters \cup Registrations /\ call.input.k = "array") =>
                \E at \in [1..Len(done) -> 1..Len(items)] :
                    /\ \A j, k \in 1..Len(done) : j < k => at[j] < at[k]
                    /\ \A j \in 1..Len(done) : done[j] = Addressed(call.op, items[at[j]]).ref
        /\ (call.op \in Setters \cup Registrations /\ call.input.k = "function") =>
                \E n \in 0..Len(found) : done = [j \in 1..n |-> found[j].ref]

C25_Witness ==
    /\ call.op = "addOnChange"
    /\ call.input = Array(<<Name("lastname"), Instance(Handle("Attribute", "firstname"))>>)
    /\ Len(call.applied) = 2
    /\ call.applied[1].target.ref = "lastname"
    /\ call.applied[2].target.ref = "firstname"
    /\ handlers = <<[target |-> "lastname", event |-> "addOnChange"], [target |-> "firstname", event |-> "addOnChange"]>>

(***************************************************************************)
(* Claims about what the getters leave behind                              *)
(***************************************************************************)
\* C26: a call of getAttribute, getControl, getTab, getSection or
\* getAttributeValue, with any specifier, leaves the host form as it was: no
\* value, requirement level, visibility, disabled state or handler pipeline
\* changes and no collection gains or loses an item.
C26_GettersArePure ==
    [][(call.op = "idle" /\ call'.op \in Getters) =>
            /\ call'.applied = <<>>
            /\ UNCHANGED <<attributes, controls, tabs>>
            /\ UNCHANGED <<value, requiredLevel, visible, disabled, handlers>>]_vars

C26_Witness ==
    /\ call.op = "getAttributeValue"
    /\ call.input = Name("lastname")
    /\ attributes = <<"firstname", "lastname">>
    /\ value["lastname"] = "John"
    /\ call.ret = One(Handle("Value", "John"))

\* C27: getAttribute(), getControl(), getTab() and getSection() called with
\* no specifier return null, not the list of all items, and do so before
\* any resolver runs: nothing is raised and nothing is reported.
C27_AbsentSpecifierIsNull ==
    (call.op \in {"getAttribute", "getControl", "getTab", "getSection"} /\ call.input = Undefined) =>
        /\ call.ret = One(NullH)
        /\ ~call.threw
        /\ call.warns = <<>>
        /\ call.applied = <<>>

C27_Witness ==
    /\ call.op = "getTab"
    /\ call.input = Undefined
    /\ tabs = <<"Summary", "Details">>
    /\ call.ret = One(NullH)

(***************************************************************************)
(* The facade on a form the host changes between two calls                 *)
(***************************************************************************)
\* the host takes an attribute off the form
HostRemovesAttribute ==
    /\ call.op = "idle"
    /\ \E i \in 1..Len(attributes) :
            attributes' = [j \in 1..(Len(attributes) - 1) |-> IF j < i THEN attributes[j] ELSE attributes[j + 1]]
    /\ UNCHANGED <<value, requiredLevel, controls, visible, disabled, tabs, handlers, call>>

\* the host puts an attribute on the form, after those already there
HostAddsAttribute ==
    /\ call.op = "idle"
    /\ \E a \in AttributeNames :
            /\ \A j \in 1..Len(attributes) : attributes[j] # a
            /\ attributes' = Append(attributes, a)
    /\ UNCHANGED <<value, requiredLevel, controls, visible, disabled, tabs, handlers, call>>

\* the user types into a field
HostChangesValue ==
    /\ call.op = "idle"
    /\ \E a \in AttributeNames, v \in {"null", "John"} : value' = [value EXCEPT ![a] = v]
    /\ UNCHANGED <<attributes, requiredLevel, controls, visible, disabled, tabs, handlers, call>>

NextHost ==
    \/ GetAttribute
    \/ GetAttributeValue
    \/ AddOnChange
    \/ HostRemovesAttribute
    \/ HostAddsAttribute
    \/ HostChangesValue
    \/ ReturnToCaller

SpecHost == InitAdd /\ [][NextHost]_vars

\* C28: no item is kept from one call to the next: whatever earlier calls
\* resolved and whatever the host changed since, getAttribute returns what
\* the host collection holds at the moment of the call (null for a name or
\* index the host no longer has), getAttributeValue returns null for an
\* attribute that is gone and otherwise nothing but the value the attribute
\* holds now, and addOnChange attaches only to an attribute the form has now.
C28_NoItemCached ==
    LET found == formContext_getAttribute(call.input)
        gone == IsKey(call.input) /\ found.v[1] = NullH
    IN  /\ (call.op = "getAttribute" /\ (IsKey(call.input) \/ call.input.k = "function")) =>
                call.ret = found
        /\ (call.op = "getAttributeValue" /\ IsKey(call.input) /\ ~call.threw) =>
                call.ret \in {One(NullH)} \cup (IF gone THEN {} ELSE {One(getValue(found.v[1]))})
        /\ (call.op = "addOnChange" /\ gone) =>
                call.applied = <<>> /\ Len(call.warns) = 1

\* getAttribute("lastname") returns null on a form whose host dropped
\* lastname after an earlier addOnChange call had resolved it
C28_Witness ==
    /\ call.op = "getAttribute"
    /\ call.input = Name("lastname")
    /\ call.ret = One(NullH)
    /\ attributes = <<"firstname">>
    /\ handlers = <<[target |-> "lastname", event |-> "addOnChange"]>>

(***************************************************************************)
(* The form-level event setters                                            *)
(***************************************************************************)

addOnLoad(handler) == Invoke(Handle("Xrm.Ui", "ui"), "addOnLoad", handler)

addOnDataLoad(handler) == Invoke(Handle("Xrm.Data", "data"), "addOnLoad", handler)

addLoaded(handler) == Invoke(Handle("Xrm.Ui", "ui"), "addLoaded", handler)

addOnSave(handler) == Invoke(Handle("Xrm.Entity", "data.entity"), "addOnSave", handler)

addOnPostSave(handler) == Invoke(Handle("Xrm.Entity", "data.entity"), "addOnPostSave", handler)

addOnPreProcessStatusChange(handler) == Invoke(Handle("Xrm.ProcessFlow", "data.process"), "addOnPreProcessStatusChange", handler)

addOnProcessStatusChange(handler) == Invoke(Handle("Xrm.ProcessFlow", "data.process"), "addOnProcessStatusChange", handler)

addOnPreStageChange(handler) == Invoke(Handle("Xrm.ProcessFlow", "data.process"), "addOnPreStageChange", handler)

addOnStageChange(handler) == Invoke(Handle("Xrm.ProcessFlow", "data.process"), "addOnStageChange", handler)

addOnStageSelected(handler) == Invoke(Handle("Xrm.ProcessFlow", "data.process"), "addOnStageSelected", handler)

AddOnLoad ==
    /\ call.op = "idle"
    /\ Add("addOnLoad", Undefined, addOnLoad("handler"))

AddOnDataLoad ==
    /\ call.op = "idle"
    /\ Add("addOnDataLoad", Undefined, addOnDataLoad("handler"))

AddLoaded ==
    /\ call.op = "idle"
    /\ Add("addLoaded", Undefined, addLoaded("handler"))

AddOnSave ==
    /\ call.op = "idle"
    /\ Add("addOnSave", Undefined, addOnSave("handler"))

AddOnPostSave ==
    /\ call.op = "idle"
    /\ Add("addOnPostSave", Undefined, addOnPostSave("handler"))

AddOnPreProcessStatusChange ==
    /\ call.op = "idle"
    /\ Add("addOnPreProcessStatusChange", Undefined, addOnPreProcessStatusChange("handler"))

AddOnProcessStatusChange ==
    /\ call.op = "idle"
    /\ Add("addOnProcessStatusChange", Undefined, addOnProcessStatusChange("handler"))

AddOnPreStageChange ==
    /\ call.op = "idle"
    /\ Add("addOnPreStageChange", Undefined, addOnPreStageChange("handler"))

AddOnStageChange ==
    /\ call.op = "idle"
    /\ Add("addOnStageChange", Undefined, addOnStageChange("handler"))

AddOnStageSelected ==
    /\ call.op = "idle"
    /\ Add("addOnStageSelected", Undefined, addOnStageSelected("handler"))

(***************************************************************************)
(* Every operation of PrimaryControl, called on a form that may already    *)
(* carry handlers                                                          *)
(***************************************************************************)
\* no setter has written to the form yet and its pipelines have room; no
\* operation of the facade reads what the setters write or the pipelines
Quiet ==
    /\ value = [a \in AttributeNames |-> "null"]
    /\ requiredLevel = [a \in AttributeNames |-> "none"]
    /\ visible = [c \in ControlNames |-> TRUE]
    /\ disabled = [c \in ControlNames |-> FALSE]
    /\ Len(handlers) < MaxHandlers

NextAny ==
    \/ Quiet /\ GetAttribute
    \/ Quiet /\ GetControl
    \/ Quiet /\ GetTab
    \/ Quiet /\ GetSection
    \/ Quiet /\ GetAttributeValue
    \/ Quiet /\ SetAttributeValue
    \/ Quiet /\ SetRequiredLevel
    \/ Quiet /\ SetOptional
    \/ Quiet /\ SetRecommended
    \/ Quiet /\ SetMandatory
    \/ Quiet /\ SetVisible
    \/ Quiet /\ SetDisabled
    \/ Quiet /\ AddOnChange
    \/ Quiet /\ AddTabStateChange
    \/ Quiet /\ AddOnLookupTagClick
    \/ Quiet /\ AddPreSearch
    \/ Quiet /\ AddSubGridOnLoad
    \/ Quiet /\ AddSubGridOnRecordSelect
    \/ Quiet /\ AddOnReadyStateComplete
    \/ Quiet /\ AddOnOutputChange
    \/ Quiet /\ AddOnResultOpened
    \/ Quiet /\ AddOnSelection
    \/ Quiet /\ AddOnPostSearch
    \/ Quiet /\ AddOnLoad
    \/ Quiet /\ AddOnDataLoad
    \/ Quiet /\ AddLoaded
    \/ Quiet /\ AddOnSave
    \/ Quiet /\ AddOnPostSave
    \/ Quiet /\ AddOnPreProcessStatusChange
    \/ Quiet /\ AddOnProcessStatusChange
    \/ Quiet /\ AddOnPreStageChange
    \/ Quiet /\ AddOnStageChange
    \/ Quiet /\ AddOnStageSelected
    \/ ReturnToCaller

SpecAny == InitAdd /\ [][NextAny]_vars

TabControl_tabControl(wrapper) ==
    IF wrapper.cls = "TabControl" THEN Handle("Tab", wrapper.ref) ELSE Handle("TabControl", wrapper.ref)

\* what a script may wrap: a host tab, or a wrapper it already has
Wrappable == {Handle("Tab", t) : t \in TabNames} \cup {Handle("TabControl", t) : t \in TabNames}

NewTabControl ==
    /\ call.op = "idle"
    /\ \E control \in Wrappable :
            Do("new TabControl", Instance(control), "", Normal(One(newTabControl(control))))

\* new TabControl(control).addTabStateChange(handler)
WrapperAddTabStateChange ==
    /\ call.op = "idle"
    /\ \E control \in Wrappable :
            LET wrapper == newTabControl(control)
                added == Invoke(TabControl_tabControl(wrapper), "addTabStateChange", "handler")
            IN  Add("TabControl.addTabStateChange", Instance(control),
                    Completion(added.error, One(wrapper), added.warns, added.applied))

\* new TabControl(control).getSection(name)
WrapperGetSection ==
    /\ call.op = "idle"
    /\ \E control \in Wrappable, s \in SectionNames \cup {"ghost"} :
            Do("TabControl.getSection", Instance(control), s,
               Normal(TabControl_getSection(newTabControl(control), Name(s))))

NextTab ==
    \/ GetTab
    \/ NewTabControl
    \/ WrapperAddTabStateChange
    \/ WrapperGetSection
    \/ ReturnToCaller

SpecTab == InitCall /\ [][NextTab]_vars

\* C30: a TabControl wrapper holds a raw host tab, never another wrapper:
\* built from a host tab it holds that tab, built from a wrapper it holds
\* the tab the wrapper holds; each wrapper getTab returns holds the host tab
\* found for the key; and a wrapper's addTabStateChange and getSection act
\* on that one host tab.
C30_WrapperHoldsRawTab ==
    LET found == formContext_ui_tabs_get(call.input).v
    IN  /\ call.op = "new TabControl" =>
                TabControl_tabControl(call.ret.v[1]) = Handle("Tab", call.input.o.ref)
        /\ (call.op = "getTab" /\ IsKey(call.input) /\ call.ret # One(NullH)) =>
                TabControl_tabControl(call.ret.v[1]) = found[1]
        /\ (call.op = "getTab" /\ call.input.k = "function") =>
                /\ Len(call.ret.v) = Len(found)
                /\ \A i \in 1..Len(found) : TabControl_tabControl(call.ret.v[i]) = found[i]
        /\ call.op = "TabControl.addTabStateChange" =>
                /\ call.applied = <<[target |-> Handle("Tab", call.input.o.ref),
                                     method |-> "addTabStateChange", arg |-> "handler"]>>
                /\ handlers[Len(handlers)] = [target |-> call.input.o.ref, event |-> "addTabStateChange"]
        /\ call.op = "TabControl.getSection" =>
                call.ret = hostGet(sections(call.input.o.ref), "Section", Name(call.arg))

C30_Witness ==
    /\ call.op = "TabControl.addTabStateChange"
    /\ call.input = Instance(Handle("TabControl", "Details"))
    /\ call.ret = One(Handle("TabControl", "Details"))
    /\ handlers = <<[target |-> "Summary", event |-> "addTabStateChange"],
                    [target |-> "Details", event |-> "addTabStateChange"]>>

====
